---- MODULE Spec2Model ----
(***************************************************************************)
(* A state-machine model of the Python-FreeVPN SSH protocol endpoints:     *)
(* the server's update tick (server.py), the address pool built by the     *)
(* application (main.py), the control-channel reassembly of both sides     *)
(* and the client's start-up handshake (client.py).                        *)
(*                                                                         *)
(* Python values are modelled as follows.  An optional value (something    *)
(* that may be None) is a set with at most one element: None is {} and a   *)
(* present value x is {x}.  A dict is a function whose DOMAIN is its key   *)
(* set.  A str is a sequence of symbols; every symbol is a tuple whose     *)
(* first element is a tag, so "\n" is <<"NL">> and a JSON member is        *)
(* <<key, value>>.  A virtual address is its host number in the network.   *)
(***************************************************************************)
EXTENDS Integers, Sequences, FiniteSets, TLC

(* ------------------------------ bounds --------------------------------- *)
\* number of addresses in the configured network range (IpRange(network))
NetworkSize == 4
\* peers that open a comm connection to the server
MaxPeers == 2
\* routing connections opened towards the server
MaxRoutingConns == 2
\* control messages sent by the peers, all together
MaxMsgs == 3
\* frames injected at the server (routing sockets and local interface)
MaxFrames == 1
\* connections, messages and frames of the peers, all together
MaxEvents == 4

\* control messages in a stream whose reads are cut at every position
MaxStreamMsgs == 2

\* control messages the server writes to the client
MaxServerMsgs == 3
\* values the 8 random bytes of a token are drawn from
NumTokens == 2
\* frames handed to the client (TUN device and routing socket)
MaxClientFrames == 1

\* bytes in the body of a frame handed to the frame codec
MaxBody == 2

\* address bits of the largest network range a pool is built for
MaxHostBits == 3
\* the ranges lie in the addresses 0 .. AddressSpace - 1
AddressSpace == 16

\* reads made readable, data queued and primary writes on a TUN device
\* taken alone, all together
MaxTunOps == 3

(* ------------------------- program constants --------------------------- *)
\* configuration["general"]["server"], as a host number (10.0.0.1)
ServerAddress == 1

\* max_seconds and wait_period of the two receive calls of Client.__init__
MaxSeconds == 5
WaitPeriod == 1

\* the size Client.update asks recv for
RecvSize == 150

(* --------------------------- Python values ----------------------------- *)
None == {}
Some(x) == {x}
Get(o) == CHOOSE x \in o : TRUE

NoException == [type |-> "none", line |-> 0]
Raise(t, l) == [type |-> t, line |-> l]

Range(s) == {s[i] : i \in 1..Len(s)}

\* list.remove(x): drops the first occurrence of x
RECURSIVE ListRemove(_, _)
ListRemove(list, x) ==
    IF list = <<>> THEN <<>>
    ELSE IF Head(list) = x THEN Tail(list)
    ELSE <<Head(list)>> \o ListRemove(Tail(list), x)

\* list.pop() with a mutated variant that takes the first entry instead
ListPopFirst(list) == [value |-> list[1], rest |-> Tail(list)]
ListPop(list) == [value |-> list[Len(list)], rest |-> SubSeq(list, 1, Len(list) - 1)]

(* ------------------------- addresses and bytes ------------------------- *)
\* tundevice.int2ip: the dotted string of a number, kept as its four octets
int2ip(number) ==
    [o1 |-> (number \div 16777216) % 256, o2 |-> (number \div 65536) % 256,
     o3 |-> (number \div 256) % 256, o4 |-> number % 256]

\* tundevice.ip2int: the number of a dotted string
ip2int(ip) == ip.o1 * 16777216 + ip.o2 * 65536 + ip.o3 * 256 + ip.o4

\* struct.pack("!I", n) and struct.unpack("!I", b): four bytes, most
\* significant first
pack_BE(n) ==
    <<(n \div 16777216) % 256, (n \div 65536) % 256, (n \div 256) % 256,
      n % 256>>
unpack_BE(b) == b[1] * 16777216 + b[2] * 65536 + b[3] * 256 + b[4]

\* struct.pack("!H", n) and struct.unpack("!H", b): two bytes
pack_H(n) == <<(n \div 256) % 256, n % 256>>
unpack_H(b) == b[1] * 256 + b[2]

\* configuration["general"]["server"], the dotted string
server_address == int2ip(ServerAddress)

(* ---------------------------- address pool ----------------------------- *)
\* list(iptools.IpRange(network)): every address of the range, ascending
IpRange == [i \in 1..NetworkSize |-> int2ip(i - 1)]

\* main.py: drop the last address of the range, then remove the server's
available_addresses ==
    ListRemove(SubSeq(IpRange, 1, Len(IpRange) - 1), server_address)

\* main.py line 51: the list without its last entry, and a mutated variant
KeepAll(list) == list
DropLast(list) == SubSeq(list, 1, Len(list) - 1)

\* list(iptools.IpRange(network)) for a range of size addresses from base
IpRangeOf(network) ==
    [i \in 1..network.size |-> int2ip(network.base + i - 1)]

\* main.py lines 50-58 for a configured network and server address:
\* either main returns after its message, or the pool is built
BuildPool(network, server) ==
    LET without_last == DropLast(IpRangeOf(network))
    IN  IF server \notin Range(without_last)
        THEN [returned |-> TRUE, available_addresses |-> <<>>]
        ELSE [returned |-> FALSE,
              available_addresses |-> ListRemove(without_last, server)]

(* ------------------------------- JSON ---------------------------------- *)
NL == <<"NL">>
LBrace == <<"{">>
RBrace == <<"}">>
MessageKeys == <<"action", "token", "payload">>

\* json.dumps(dict): the members between braces
json_dumps(m) ==
    LET member(k) == IF k \in DOMAIN m THEN << <<k, m[k]>> >> ELSE <<>>
    IN  <<LBrace>> \o member("action") \o member("token") \o member("payload")
        \o <<RBrace>>

\* json.loads(str): Some(dict), or None where Python raises ValueError
json_loads(text) ==
    LET n == Len(text)
        inner == 2..(n - 1)
        wellformed ==
            /\ n >= 3
            /\ text[1] = LBrace
            /\ text[n] = RBrace
            /\ \A i \in inner : /\ Len(text[i]) = 2
                                /\ text[i][1] \in Range(MessageKeys)
            /\ \A i, j \in inner : text[i][1] = text[j][1] => i = j
            /\ \E i \in inner : text[i][1] = "action"
    IN  IF wellformed
        THEN Some([k \in {text[i][1] : i \in inner} |->
                      (CHOOSE s \in {text[i] : i \in inner} : s[1] = k)[2]])
        ELSE None

\* str.split("\n")
RECURSIVE Split(_)
Split(data) ==
    IF \A i \in 1..Len(data) : data[i] # NL THEN <<data>>
    ELSE LET i == CHOOSE k \in 1..Len(data) :
                      data[k] = NL /\ \A j \in 1..(k - 1) : data[j] # NL
         IN  <<SubSeq(data, 1, i - 1)>> \o Split(SubSeq(data, i + 1, Len(data)))

(* ------------------------------- frames -------------------------------- *)
\* size of the fixed header read before the rest of a frame
HeaderSize == 24

\* an IPv4 packet as the TUN device hands it over (IFF_NO_PI): total
\* length in bytes 2-3, source in bytes 12-15, destination in bytes 16-19
\* (counted from 0), padded to the fixed header size, then the body
Zeros(n) == [i \in 1..n |-> 0]
Packet(source, destination, body) ==
    <<69, 0>> \o pack_H(HeaderSize + Len(body)) \o Zeros(8)
    \o pack_BE(ip2int(source)) \o pack_BE(ip2int(destination))
    \o Zeros(HeaderSize - 20) \o body

\* a frame with a two-byte body; data fills the body
Frame(source, destination, data) == Packet(source, destination, <<data, data>>)

\* str[a:b] of Python, a and b counted from 0
Slice(str, a, b) ==
    SubSeq(str, a + 1, IF b < Len(str) THEN b ELSE Len(str))

\* tundevice.get_frame_info raises struct.error when a slice is short
get_frame_info_raises(header) == Len(header) < 20

\* tundevice.get_frame_info: the fields parsed out of the header
get_frame_info(header) ==
    [length |-> unpack_H(Slice(header, 2, 4)),
     source |-> int2ip(unpack_BE(Slice(header, 12, 16))),
     destination |-> int2ip(unpack_BE(Slice(header, 16, 20)))]

\* list[a:b] = values of Python, a and b counted from 0
SliceAssign(list, a, b, values) ==
    LET lo == IF a < Len(list) THEN a ELSE Len(list)
        hi == IF b < lo THEN lo ELSE IF b < Len(list) THEN b ELSE Len(list)
    IN  SubSeq(list, 1, lo) \o values \o SubSeq(list, hi + 1, Len(list))

\* tundevice.set_frame_info: information is a dict with the keys to rewrite
set_frame_info(frame, information) ==
    LET with_source ==
            IF "source" \in DOMAIN information
            THEN SliceAssign(frame, 16, 20,
                             pack_BE(ip2int(information["source"])))
            ELSE frame
    IN  IF "destination" \in DOMAIN information
        THEN SliceAssign(with_source, 20, 24,
                         pack_BE(ip2int(information["destination"])))
        ELSE with_source

(* ----------------------------- TUN device ------------------------------ *)
\* the largest frame length TUNDevice.update lets pass
MaxFrameLength == 65536

\* TUNDevice.handle_frame of the base class: the frame is what to write
handle_frame(frame, info) == Some(frame)

\* TUNDevice.write_data on a device record: one os.write of data
write_data(dev, data) == [dev EXCEPT !.device_out = Append(@, data)]

\* TUNDevice.write_data_callback
write_data_callback(dev, data, before) ==
    IF before
    THEN [dev EXCEPT !.after_data = @ \o data]
    ELSE [dev EXCEPT !.before_data = @ \o data]

\* TUNDevice.update when the device is readable: frame_header is what the
\* first os.read returns and available what a second read can draw from.
\* The result is the device and a record of what the tick did.
TUNDevice_update(dev, frame_header, available) ==
    LET tick(data, invoked, raised, logged) ==
            [frame_header |-> frame_header, frame_data |-> data,
             invoked |-> invoked, raised |-> raised, logged |-> logged]
        short == IF Len(frame_header) # HeaderSize
                 THEN <<"Invalid Frame Header Length">> ELSE <<>>
    IN  IF get_frame_info_raises(frame_header)
        THEN [dev |-> [dev EXCEPT !.raised = Raise("struct.error", 158)],
              tick |-> tick(<<>>, <<>>, Raise("struct.error", 158), short)]
        ELSE
        LET information == get_frame_info(frame_header)
            data_length == information.length
            remaining_bytes == data_length - HeaderSize
            frame_data == Slice(available, 0, remaining_bytes)
        IN  IF data_length <= 0 \/ data_length > MaxFrameLength
            THEN [dev |-> dev,
                  tick |-> tick(<<>>, <<>>, NoException,
                                Append(short, "Invalid Frame Length"))]
            ELSE IF remaining_bytes < 0
            \* os.read with a negative size
            THEN [dev |-> [dev EXCEPT !.raised = Raise("OSError", 164)],
                  tick |-> tick(<<>>, <<>>, Raise("OSError", 164), short)]
            ELSE IF Len(frame_data) # remaining_bytes
            THEN [dev |-> dev,
                  tick |-> tick(frame_data, <<>>, NoException,
                                Append(short, "Bad Frame Data Length"))]
            ELSE LET frame == frame_header \o frame_data
                     result == handle_frame(frame, information)
                 IN  [dev |-> IF result # None
                              THEN write_data(dev, Get(result)) ELSE dev,
                      tick |-> tick(frame_data, <<frame>>, NoException, short)]

(* ------------------------------ variables ------------------------------ *)
VARIABLES
    \* server.py
    addresses,               \* protocol.addresses: the address pool (a list)
    routing_socket_mapping,  \* virtual address -> routing socket or None
    connected_clients,       \* the session table (a list)
    comm_socket_buffers,     \* comm socket -> pending text or None
    uncaught,                \* the exception that left Server.update, if any
    blocked,                 \* the routing connection whose recv(4) has not returned
    \* the sockets and the device, as the server sees them
    comm_backlog,            \* comm connections waiting in accept()
    routing_backlog,         \* routing connections waiting in accept()
    routing_ident,           \* routing connection -> identifier bytes its peer wrote
    routing_pending,         \* routing connection -> bytes its peer has yet to write
    comm_in,                 \* comm connection -> text not yet read by recv
    comm_out,                \* comm connection -> texts sent in the last tick
    routing_in,              \* routing connection -> bytes not yet read
    routing_out,             \* routing connection -> frames sent in the last tick
    closed,                  \* routing connections closed by the server
    tun_in,                  \* frames readable on the server's TUN device
    device_out,              \* frames written to the TUN device in the last tick
    \* what the server did in the last tick, in order
    accepted,                \* the session registered by the comm accept, if any
    handled,                 \* one entry per control message dispatched
    routed,                  \* one entry per route_frame call
    routing_accepted,        \* what the routing accept did with its connection
    data_reads,              \* one entry per header read on a routing socket
    \* what the server did since it started
    session_ids,             \* the value of every setID message, in order
    n_assigned,              \* successful automatic address assignments
    granted,                 \* address -> session a success response gave it to
    n_msgs, n_frames,        \* what the peers have sent so far
    \* control-channel reassembly on its own: a stream cut into reads
    reasm_stream,            \* the whole stream of messages
    reasm_rest,              \* side -> the part of the stream not yet read
    reasm_buffer,            \* side -> the pending buffer of that side
    reasm_messages,          \* side -> the messages handed to dispatch
    reasm_raised,            \* side -> the exception a read raised, if any
    \* client.py
    c_pc,                    \* where the client is in its start-up and loop
    c_client_id,             \* Client.client_id
    token_callbacks,         \* Client.token_callbacks: token -> continuation
    comm_buffer,             \* Client.comm_buffer
    waited_seconds,          \* waited_seconds of the running receive call
    c_address,               \* Client.address, once assigned
    c_device,                \* Client.device, once constructed
    c_raised,                \* the exception that left the client, if any
    \* the client's sockets and device
    c_comm_in,               \* text on the comm socket not yet read
    c_comm_pending,          \* text the server's end has yet to deliver
    c_comm_out,              \* dicts the client sent on the comm socket
    c_routing_in,            \* bytes on the routing socket not yet read
    c_routing_pending,       \* bytes the server's end has yet to write
    c_routing_out,           \* what the client wrote on the routing socket
    c_tun_in,                \* frames readable on the client's TUN device
    c_device_out,            \* what the client wrote to its TUN device
    \* what the client did
    c_handled,               \* one entry per message dispatched by the last receive
    c_invoked,               \* every continuation call: token and payload
    c_registered,            \* tokens a send stored a continuation for
    c_answered,              \* stored tokens a dispatched response carried
    n_server_msgs, n_client_frames,
    \* tundevice.py: the frame codec on its own
    codec_frame,             \* the frame given to set_frame_info
    codec_information,       \* the dict given to set_frame_info
    codec_result,            \* what set_frame_info returned, once it has
    \* main.py: building the pool on its own
    cfg_network,             \* configuration["general"]["network"]
    cfg_server,              \* configuration["general"]["server"]
    cfg_pool,                \* what lines 50-58 made of them, once they ran
    \* tundevice.py: a TUN device on its own
    t_before_data,           \* TUNDevice._before_data
    t_after_data,            \* TUNDevice._after_data
    t_device_out,            \* every os.write on the device, in order
    t_raised,                \* the exception that left the device, if any
    t_pending,               \* what the reads of the next update will return
    t_tick,                  \* what the last update did
    t_queued,                \* data queued since the last primary write
    t_write,                 \* what the last primary write found and did
    n_tun_ops

server_vars == <<addresses, routing_socket_mapping, connected_clients,
                 comm_socket_buffers, uncaught>>
net_vars == <<comm_backlog, routing_backlog, routing_ident, comm_in, comm_out,
              routing_in, routing_out, closed, tun_in, device_out>>
log_vars == <<accepted, handled, routed, session_ids, n_assigned, granted,
              n_msgs, n_frames>>
tick_vars == <<blocked, routing_accepted, data_reads>>

reasm_vars == <<reasm_stream, reasm_rest, reasm_buffer, reasm_messages,
                reasm_raised>>

client_vars == <<c_pc, c_client_id, token_callbacks, comm_buffer,
                 waited_seconds, c_address, c_device, c_raised, c_comm_in,
                 c_comm_pending, c_comm_out, c_routing_in, c_routing_pending, c_routing_out,
                 c_tun_in, c_device_out, c_handled, c_invoked, c_registered,
                 c_answered, n_server_msgs, n_client_frames>>

codec_vars == <<codec_frame, codec_information, codec_result>>
cfg_vars == <<cfg_network, cfg_server, cfg_pool>>
tun_vars == <<t_before_data, t_after_data, t_device_out, t_raised, t_pending,
              t_tick, t_queued, t_write, n_tun_ops>>
pure_vars == <<codec_vars, cfg_vars, tun_vars>>

(* --------------------------- server: requests -------------------------- *)
\* line 106, "address in self.routing_socket_mapping", and a mutated
\* variant that never finds the address
NeverInUse(address, mapping) == FALSE
InUse(address, mapping) == address \in DOMAIN mapping

\* Server.action_requestIP.  result is None when the call raised.
action_requestIP(addrs, mapping, client_data, payload) ==
    IF \/ payload = None
       \/ "address" \notin DOMAIN Get(payload)
       \/ Get(payload)["address"] = None
    THEN IF Len(addrs) = 0
         THEN [addresses |-> addrs, routing_socket_mapping |-> mapping,
               result |-> Some([success |-> FALSE, reason |-> "No addresses left."]),
               raised |-> NoException]
         ELSE LET popped == ListPop(addrs)
              IN  [addresses |-> popped.rest,
                   routing_socket_mapping |->
                       (popped.value :> client_data.routing.socket) @@ mapping,
                   result |-> Some([success |-> TRUE, address |-> popped.value]),
                   raised |-> NoException]
    ELSE LET address == Get(Get(payload)["address"])
         IN  IF InUse(address, mapping)
             THEN [addresses |-> addrs, routing_socket_mapping |-> mapping,
                   result |-> Some([success |-> FALSE, reason |-> "Address in use."]),
                   raised |-> NoException]
             ELSE IF address \notin Range(addrs)
             THEN [addresses |-> addrs, routing_socket_mapping |-> mapping,
                   result |-> Some([success |-> FALSE, reason |-> "Address not available."]),
                   raised |-> NoException]
             \* line 112 binds the address, then line 113 reads self.addresses,
             \* an attribute the Server object does not have
             ELSE [addresses |-> addrs,
                   routing_socket_mapping |->
                       (address :> client_data.routing.socket) @@ mapping,
                   result |-> None,
                   raised |-> Raise("AttributeError", 113)]

\* Server.action_mapping
action_mapping == {"requestIP"}

\* One iteration of the loop of Server.handle_messages on state st =
\* [addresses, routing_socket_mapping, sent, raised, n_assigned, granted,
\* handled].
handle_message(st, client_id, client_data, message) ==
    LET action == message["action"]
        before == [addresses |-> st.addresses,
                   routing_socket_mapping |-> st.routing_socket_mapping]
        entry(after, sent, raised) ==
            [client_id |-> client_id, message |-> message,
             before |-> before, after |-> after,
             sent |-> sent, raised |-> raised,
             n_assigned |-> st.n_assigned]
    IN  IF action \in action_mapping
        THEN LET payload == IF "payload" \in DOMAIN message
                            THEN message["payload"] ELSE None
                 r == action_requestIP(st.addresses, st.routing_socket_mapping,
                                       client_data, payload)
                 after == [addresses |-> r.addresses,
                           routing_socket_mapping |-> r.routing_socket_mapping]
                 dispatched ==
                     IF "token" \in DOMAIN message
                     THEN [action |-> "response", payload |-> Get(r.result),
                           token |-> message["token"]]
                     ELSE [action |-> "response", payload |-> Get(r.result)]
                 text == json_dumps(dispatched) \o <<NL>>
             IN  IF r.raised # NoException
                 THEN [addresses |-> r.addresses,
                       routing_socket_mapping |-> r.routing_socket_mapping,
                       sent |-> st.sent, raised |-> r.raised,
                       n_assigned |-> st.n_assigned, granted |-> st.granted,
                       handled |-> Append(st.handled, entry(after, None, r.raised))]
                 ELSE [addresses |-> r.addresses,
                       routing_socket_mapping |-> r.routing_socket_mapping,
                       sent |-> Append(st.sent, text), raised |-> NoException,
                       n_assigned |-> IF Len(r.addresses) < Len(st.addresses)
                                      THEN st.n_assigned + 1 ELSE st.n_assigned,
                       granted |-> IF Get(r.result).success
                                   THEN (Get(r.result).address :> client_id)
                                        @@ st.granted
                                   ELSE st.granted,
                       handled |-> Append(st.handled,
                                          entry(after, Some(text), NoException))]
        \* line 137: the format string ends in "%!", which is no conversion,
        \* so building the log line raises ValueError
        ELSE [st EXCEPT !.raised = Raise("ValueError", 137),
                        !.handled = Append(st.handled,
                            entry(before, None, Raise("ValueError", 137)))]

\* Server.handle_messages: the loop, left at the first exception
RECURSIVE handle_messages(_, _, _, _)
handle_messages(st, client_id, client_data, messages) ==
    IF messages = <<>> \/ st.raised # NoException THEN st
    ELSE handle_messages(handle_message(st, client_id, client_data, Head(messages)),
                         client_id, client_data, Tail(messages))

(* ------------------------ control-channel reads ------------------------ *)
\* [json.loads(message) for message in messages]: None where one raises
loads_all(segments) ==
    IF \E i \in 1..Len(segments) : json_loads(segments[i]) = None
    THEN None
    ELSE Some([i \in 1..Len(segments) |-> Get(json_loads(segments[i]))])

\* Server.update, lines 239-255: what a recv that returned data does to the
\* socket's buffer, and the messages it hands to handle_messages
ServerCommRecv(buffer, data) ==
    IF data = <<>>
    THEN [buffer |-> buffer, messages |-> <<>>, raised |-> NoException]
    ELSE LET segments == Split(data)
         IN  IF Len(segments) = 1
             THEN IF buffer = None
                  \* None += str
                  THEN [buffer |-> buffer, messages |-> <<>>,
                        raised |-> Raise("TypeError", 243)]
                  ELSE [buffer |-> Some(Get(buffer) \o segments[1]),
                        messages |-> <<>>, raised |-> NoException]
             ELSE LET last_segment == segments[Len(segments)]
                      popped == SubSeq(segments, 1, Len(segments) - 1)
                      \* messages[0] += buffer: the pending text goes behind
                      joined == IF buffer # None
                                THEN [popped EXCEPT ![1] = @ \o Get(buffer)]
                                ELSE popped
                      pending == IF last_segment # <<>>
                                 THEN Some(last_segment) ELSE None
                      parsed == loads_all(joined)
                  IN  IF parsed = None
                      THEN [buffer |-> pending, messages |-> <<>>,
                            raised |-> Raise("ValueError", 255)]
                      ELSE [buffer |-> pending, messages |-> Get(parsed),
                            raised |-> NoException]

\* Client.receive, lines 169-186: the same steps on Client.comm_buffer
ClientCommRecv(buffer, data) ==
    IF data = <<>>
    THEN [buffer |-> buffer, messages |-> <<>>, raised |-> NoException]
    ELSE LET segments == Split(data)
         IN  IF Len(segments) = 1
             THEN IF buffer = None
                  THEN [buffer |-> buffer, messages |-> <<>>,
                        raised |-> Raise("TypeError", 173)]
                  ELSE [buffer |-> Some(Get(buffer) \o segments[1]),
                        messages |-> <<>>, raised |-> NoException]
             ELSE LET last_segment == segments[Len(segments)]
                      popped == SubSeq(segments, 1, Len(segments) - 1)
                      joined == IF buffer # None
                                THEN [popped EXCEPT ![1] = @ \o Get(buffer)]
                                ELSE popped
                      pending == IF last_segment # <<>>
                                 THEN Some(last_segment) ELSE None
                      parsed == loads_all(joined)
                  IN  IF parsed = None
                      THEN [buffer |-> pending, messages |-> <<>>,
                            raised |-> Raise("ValueError", 185)]
                      ELSE [buffer |-> pending, messages |-> Get(parsed),
                            raised |-> NoException]

(* ------------------------------- client -------------------------------- *)
\* a mutated variant of the packing below: most significant byte first
pack_I_swapped(n) ==
    <<(n \div 16777216) % 256, (n \div 65536) % 256, (n \div 256) % 256,
      n % 256>>

\* struct.pack("<I", n): four bytes, least significant first
pack_I(n) ==
    <<n % 256, (n \div 256) % 256, (n \div 65536) % 256,
      (n \div 16777216) % 256>>

\* Client.action_mapping
client_action_mapping == {"setID", "ping"}

\* Client.send on a client state cs: the message goes out, and the
\* continuation, if there is one, is stored under the token
client_send(cs, action, payload, token, callback) ==
    LET dispatched == [action |-> action, token |-> token, payload |-> payload]
        out == [cs EXCEPT !.comm_out = Append(@, dispatched)]
    IN  IF callback # None
        THEN [out EXCEPT !.token_callbacks = (token :> Get(callback)) @@ @,
                         !.registered = @ \cup {token}]
        ELSE out

\* Client.handle_ip_assignment
handle_ip_assignment(cs, payload) ==
    IF "address" \notin DOMAIN payload
    THEN [cs EXCEPT !.raised = Raise("KeyError", 105)]
    ELSE [cs EXCEPT !.address = Some(payload["address"]),
                    !.device = Some([name |-> "vpnClient",
                                     address |-> payload["address"]])]

\* lines 116-122: a response looks its token up, calls the continuation
\* and deletes the entry
client_response(cs, message) ==
    LET token == message["token"]
    IN  IF token \in DOMAIN cs.token_callbacks
        THEN LET called ==
                     [handle_ip_assignment(cs, message["payload"]) EXCEPT
                         !.invoked = Append(@, [token |-> token,
                                                payload |-> message["payload"]]),
                         !.answered = @ \cup {token}]
             IN  IF called.raised # NoException
                 THEN called
                 ELSE [called EXCEPT !.token_callbacks =
                          [t \in DOMAIN @ \ {token} |-> @[t]]]
        ELSE cs

\* one iteration of the loop of Client.handle_messages; pong_token is the
\* token Client.send draws when action_ping answers
client_handle_message(cs, message, pong_token) ==
    LET action == message["action"]
        done ==
            IF action = "response" THEN client_response(cs, message)
            ELSE IF action \in client_action_mapping
            THEN LET payload == IF "payload" \in DOMAIN message
                                THEN message["payload"] ELSE None
                 IN  IF "payload" \notin DOMAIN message
                     \* payload["value"] on None
                     THEN [cs EXCEPT !.raised = Raise("TypeError",
                              IF action = "setID" THEN 138 ELSE 142)]
                     ELSE IF action = "setID"
                     THEN [cs EXCEPT !.client_id = Some(payload["value"])]
                     ELSE client_send(cs, "pong", payload["value"],
                                      pong_token, None)
            \* line 131 logs the unknown action
            ELSE cs
    IN  [done EXCEPT !.handled = Append(cs.handled,
            [message |-> message,
             before |-> [cs EXCEPT !.handled = <<>>],
             after |-> [done EXCEPT !.handled = <<>>]])]

\* Client.handle_messages
RECURSIVE client_handle_messages(_, _, _)
client_handle_messages(cs, messages, pong_token) ==
    IF messages = <<>> \/ cs.raised # NoException THEN cs
    ELSE client_handle_messages(
             client_handle_message(cs, Head(messages), pong_token),
             Tail(messages), pong_token)

(* ---------------------------- server: routing -------------------------- *)
\* what a frame can change: the sockets, the device and the tables
Snapshot(s) ==
    [routing_out |-> s.routing_out, device_out |-> s.device_out,
     routing_socket_mapping |-> s.routing_socket_mapping,
     addresses |-> s.addresses, connected_clients |-> s.connected_clients,
     closed |-> s.closed, uncaught |-> s.uncaught]

\* line 160, the branch for a destination that is no key of the routing
\* table (it prints), and a mutated variant that hands the frame to the
\* local device
UnknownToDevice(s, frame) == [s EXCEPT !.device_out = Append(@, frame)]
UnknownRecipient(s, frame) == s

\* Server.route_frame, on a server state s (the record of State below)
route_frame(s, frame, information) ==
    LET destination == information.destination
        \* the session that was told the destination is its address, and
        \* that session's routing socket now
        owners == IF destination \in DOMAIN s.granted
                  THEN {[client_id |-> s.granted[destination],
                         socket |-> s.connected_clients[s.granted[destination] + 1]
                                        .routing.socket]}
                  ELSE {}
        done ==
            IF destination \in DOMAIN s.routing_socket_mapping
            THEN LET routing_socket == s.routing_socket_mapping[destination]
                 IN  IF routing_socket = None
                     THEN [s EXCEPT !.device_out = Append(@, frame)]
                     ELSE [s EXCEPT !.routing_out[Get(routing_socket)] =
                                        Append(@, frame)]
            ELSE UnknownRecipient(s, frame)
        target ==
            IF destination \notin DOMAIN s.routing_socket_mapping THEN "unknown"
            ELSE IF s.routing_socket_mapping[destination] = None THEN "local"
            ELSE "remote"
    IN  [done EXCEPT !.routed = Append(@,
            [frame |-> frame, destination |-> destination, target |-> target,
             socket |-> IF target = "remote"
                        THEN s.routing_socket_mapping[destination] ELSE None,
             owners |-> owners,
             before |-> Snapshot(s), after |-> Snapshot(done)])]

(* ------------------------- Server.update, by step ---------------------- *)
\* line 163, self.device.update(): one frame read from the TUN device, if
\* one is readable, goes through VPNAdapter.handle_frame to route_frame
DeviceUpdate(s) ==
    IF s.tun_in # <<>>
    THEN [route_frame(s, Head(s.tun_in), get_frame_info(Head(s.tun_in)))
             EXCEPT !.tun_in = Tail(@)]
    ELSE s

\* the id given to a new session, and a mutated variant that starts at one
NextIdFromOne(clients) == Len(clients) + 1
NextId(clients) == Len(clients)

\* the setID message of line 183
SetIDMessage(next_id) ==
    [action |-> "setID", payload |-> [value |-> next_id]]

\* lines 166-185: accept on the comm socket
CommAccept(s) ==
    IF s.comm_backlog # <<>>
    THEN LET connection == Head(s.comm_backlog)
             next_id == NextId(s.connected_clients)
             socket_data == [comm |-> [socket |-> Some(connection)],
                             routing |-> [socket |-> None]]
         IN  [s EXCEPT
                 !.comm_backlog = Tail(@),
                 !.connected_clients = Append(@, socket_data),
                 !.comm_socket_buffers = (connection :> None) @@ @,
                 !.comm_out[connection] =
                     Append(@, json_dumps(SetIDMessage(next_id)) \o <<NL>>),
                 !.accepted = Some([connection |-> connection,
                                    next_id |-> next_id,
                                    socket_data |-> socket_data]),
                 !.session_ids = Append(@, next_id)]
    \* accept raised socket.error
    ELSE s

\* struct.unpack("<I", b): four bytes, least significant first
unpack_I(b) == b[1] + b[2] * 256 + b[3] * 65536 + b[4] * 16777216

\* line 205, "connection_data["routing"]["socket"] is not None", and a
\* mutated variant that never finds a session bound
NeverBound(connection_data) == FALSE
RoutingBound(connection_data) == connection_data.routing.socket # None

\* lines 194-209: the identifier read by recv(4) is decoded and the
\* connection is bound to its session or closed
RoutingIdent(s, connection) ==
    LET ident_bytes == s.routing_ident[connection]
    IN  IF Len(ident_bytes) # 4
        \* struct.unpack needs exactly four bytes
        THEN [s EXCEPT !.uncaught = Raise("struct.error", 194)]
        ELSE LET client_id == unpack_I(ident_bytes)
                 entry(bound) ==
                     Some([connection |-> connection, client_id |-> client_id,
                           before |-> s.connected_clients, bound |-> bound])
             IN  IF client_id < 0 \/ client_id >= Len(s.connected_clients)
                 THEN [s EXCEPT !.closed = @ \cup {connection},
                                !.routing_accepted = entry(FALSE)]
                 ELSE IF RoutingBound(s.connected_clients[client_id + 1])
                 THEN [s EXCEPT !.closed = @ \cup {connection},
                                !.routing_accepted = entry(FALSE)]
                 ELSE [s EXCEPT
                          !.connected_clients[client_id + 1].routing.socket =
                              Some(connection),
                          !.routing_accepted = entry(TRUE)]

\* lines 188-211: accept on the routing socket and read the identifier;
\* the accepted connection is a blocking socket, so recv(4) does not
\* return before the peer has written something
RoutingAccept(s) ==
    IF s.routing_backlog # <<>>
    THEN LET connection == Head(s.routing_backlog)
             popped == [s EXCEPT !.routing_backlog = Tail(@)]
         IN  IF s.routing_ident[connection] = <<>>
             THEN [popped EXCEPT !.blocked = Some(connection)]
             ELSE RoutingIdent(popped, connection)
    ELSE s

\* lines 218-233: the routing socket of session client_id
RoutingRecv(s, client_id) ==
    LET info == s.connected_clients[client_id + 1]
        routing_sock == info.routing.socket
    IN  IF routing_sock = None THEN s
        ELSE LET available == s.routing_in[Get(routing_sock)]
                 header_data == Slice(available, 0, HeaderSize)
                 after_header == SubSeq(available, Len(header_data) + 1,
                                        Len(available))
                 header_info == get_frame_info(header_data)
                 remaining_bytes == header_info.length - HeaderSize
                 frame_data == Slice(after_header, 0, remaining_bytes)
                 entry(outcome, data) ==
                     [client_id |-> client_id, socket |-> Get(routing_sock),
                      header_data |-> header_data, frame_data |-> data,
                      outcome |-> outcome]
                 read(rest, outcome, data) ==
                     [s EXCEPT !.routing_in[Get(routing_sock)] = rest,
                               !.data_reads = Append(@, entry(outcome, data))]
             IN  IF available = <<>>
                 \* recv(24) raised socket.error
                 THEN s
                 ELSE IF get_frame_info_raises(header_data)
                 THEN [read(after_header, "raised", <<>>) EXCEPT
                          !.uncaught = Raise("struct.error", 222)]
                 ELSE IF remaining_bytes < 0
                 \* recv with a negative size
                 THEN [read(after_header, "raised", <<>>) EXCEPT
                          !.uncaught = Raise("ValueError", 226)]
                 ELSE IF remaining_bytes > 0 /\ after_header = <<>>
                 \* the second recv raised socket.error: the header is dropped
                 THEN read(after_header, "skipped", <<>>)
                 ELSE route_frame(
                          read(SubSeq(after_header, Len(frame_data) + 1,
                                      Len(after_header)),
                               "routed", frame_data),
                          header_data \o frame_data, header_info)

\* lines 235-258: the comm socket of session client_id
CommRecv(s, client_id) ==
    LET info == s.connected_clients[client_id + 1]
        comm_sock == Get(info.comm.socket)
        data == s.comm_in[comm_sock]
        read == ServerCommRecv(s.comm_socket_buffers[comm_sock], data)
        st0 == [addresses |-> s.addresses,
                routing_socket_mapping |-> s.routing_socket_mapping,
                sent |-> <<>>, raised |-> read.raised,
                n_assigned |-> s.n_assigned, granted |-> s.granted,
                handled |-> s.handled]
        st == handle_messages(st0, client_id, info, read.messages)
    IN  IF s.uncaught # NoException
        \* an exception left the routing read: update is over
        THEN s
        ELSE
        [s EXCEPT !.comm_in[comm_sock] = <<>>,
                  !.comm_socket_buffers[comm_sock] = read.buffer,
                  !.addresses = st.addresses,
                  !.routing_socket_mapping = st.routing_socket_mapping,
                  !.comm_out[comm_sock] = @ \o st.sent,
                  !.handled = st.handled,
                  !.n_assigned = st.n_assigned,
                  !.granted = st.granted,
                  !.uncaught = st.raised]

\* lines 214-258: the loop over the sessions, left at the first exception
\* that is not socket.error
RECURSIVE ProcessClients(_, _)
ProcessClients(s, client_id) ==
    IF \/ client_id >= Len(s.connected_clients)
       \/ s.uncaught # NoException
       \/ s.blocked # None
    THEN s
    ELSE CHOOSE done \in
             {ProcessClients(read, client_id + 1) :
                 read \in {CommRecv(routed_s, client_id) :
                     routed_s \in {RoutingRecv(s, client_id)}}} : TRUE

\* what the previous tick sent and did is forgotten when a tick starts
StartTick(s) ==
    [s EXCEPT !.comm_out = [c \in DOMAIN @ |-> <<>>],
              !.routing_out = [r \in DOMAIN @ |-> <<>>],
              !.device_out = <<>>, !.accepted = None,
              !.handled = <<>>, !.routed = <<>>,
              !.routing_accepted = None, !.data_reads = <<>>]

\* Server.update; a tick whose recv(4) has not returned stops there
update(s) ==
    CHOOSE done \in
        {ProcessClients(s3, 0) :
            s3 \in {RoutingAccept(s2) :
                s2 \in {CommAccept(s1) :
                    s1 \in {DeviceUpdate(s0) : s0 \in {StartTick(s)}}}}} : TRUE

\* the rest of a tick whose recv(4) returns at last
resume(s) ==
    CHOOSE done \in
        {ProcessClients(s1, 0) :
            s1 \in {RoutingIdent([s EXCEPT !.blocked = None], Get(s.blocked))}}
        : TRUE

(* ------------------------------- Init ---------------------------------- *)
Sides == {"server", "client"}

\* the pending buffer each side starts with: server.py line 180 stores
\* None for a new comm socket, client.py line 75 sets comm_buffer to ""
InitialBuffer(side) == IF side = "server" THEN None ELSE Some(<<>>)

\* no stream is being reassembled
ReasmIdle ==
    /\ reasm_stream = <<>>
    /\ reasm_rest = [side \in Sides |-> <<>>]
    /\ reasm_buffer = [side \in Sides |-> InitialBuffer(side)]
    /\ reasm_messages = [side \in Sides |-> <<>>]
    /\ reasm_raised = [side \in Sides |-> NoException]

ServerInit ==
    /\ addresses = available_addresses
    /\ routing_socket_mapping = (server_address :> None)
    /\ connected_clients = <<>>
    /\ comm_socket_buffers = <<>>
    /\ uncaught = NoException
    /\ blocked = None
    /\ routing_pending = [r \in 1..MaxRoutingConns |-> <<>>]
    /\ routing_accepted = None
    /\ data_reads = <<>>
    /\ comm_backlog = <<>>
    /\ routing_backlog = <<>>
    /\ routing_ident = <<>>
    /\ comm_in = [c \in 1..MaxPeers |-> <<>>]
    /\ comm_out = [c \in 1..MaxPeers |-> <<>>]
    /\ routing_in = [r \in 1..MaxRoutingConns |-> <<>>]
    /\ routing_out = [r \in 1..MaxRoutingConns |-> <<>>]
    /\ closed = {}
    /\ tun_in = <<>>
    /\ device_out = <<>>
    /\ accepted = None
    /\ handled = <<>>
    /\ routed = <<>>
    /\ session_ids = <<>>
    /\ n_assigned = 0
    /\ granted = <<>>
    /\ n_msgs = 0
    /\ n_frames = 0

\* the client after lines 50-81 of Client.__init__: connected on the comm
\* socket, about to wait for its id
ClientInit ==
    /\ c_pc = "wait_id"
    /\ c_client_id = None
    /\ token_callbacks = <<>>
    /\ comm_buffer = Some(<<>>)
    /\ waited_seconds = 0
    /\ c_address = None
    /\ c_device = None
    /\ c_raised = NoException
    /\ c_comm_in = <<>>
    /\ c_comm_pending = <<>>
    /\ c_comm_out = <<>>
    /\ c_routing_in = <<>>
    /\ c_routing_pending = <<>>
    /\ c_routing_out = <<>>
    /\ c_tun_in = <<>>
    /\ c_device_out = <<>>
    /\ c_handled = <<>>
    /\ c_invoked = <<>>
    /\ c_registered = {}
    /\ c_answered = {}
    /\ n_server_msgs = 0
    /\ n_client_frames = 0

\* no frame is being rewritten
CodecIdle ==
    /\ codec_frame = <<>>
    /\ codec_information = <<>>
    /\ codec_result = None

\* the configuration is the one ServerInit starts from
CfgIdle ==
    /\ cfg_network = [base |-> 0, size |-> NetworkSize]
    /\ cfg_server = server_address
    /\ cfg_pool = None

\* TUNDevice.__init__ (lines 120-124): empty queues, nothing read or written
TunIdle ==
    /\ t_before_data = <<>>
    /\ t_after_data = <<>>
    /\ t_device_out = <<>>
    /\ t_raised = NoException
    /\ t_pending = None
    /\ t_tick = None
    /\ t_queued = [before |-> <<>>, after |-> <<>>]
    /\ t_write = None
    /\ n_tun_ops = 0

Init ==
    ServerInit /\ ReasmIdle /\ ClientInit /\ CodecIdle /\ CfgIdle /\ TunIdle

Running == uncaught = NoException

\* the server and its sockets as one record
State ==
    [addresses |-> addresses,
     routing_socket_mapping |-> routing_socket_mapping,
     connected_clients |-> connected_clients,
     comm_socket_buffers |-> comm_socket_buffers,
     uncaught |-> uncaught, blocked |-> blocked,
     routing_accepted |-> routing_accepted, data_reads |-> data_reads,
     comm_backlog |-> comm_backlog,
     routing_backlog |-> routing_backlog,
     routing_ident |-> routing_ident,
     comm_in |-> comm_in, comm_out |-> comm_out,
     routing_in |-> routing_in, routing_out |-> routing_out,
     closed |-> closed, tun_in |-> tun_in, device_out |-> device_out,
     accepted |-> accepted, handled |-> handled, routed |-> routed,
     session_ids |-> session_ids, n_assigned |-> n_assigned,
     granted |-> granted]

\* the variables of a server state s become the next state
ServerBecomes(s) ==
    /\ addresses' = s.addresses
    /\ routing_socket_mapping' = s.routing_socket_mapping
    /\ connected_clients' = s.connected_clients
    /\ comm_socket_buffers' = s.comm_socket_buffers
    /\ uncaught' = s.uncaught
    /\ blocked' = s.blocked
    /\ comm_backlog' = s.comm_backlog
    /\ routing_backlog' = s.routing_backlog
    /\ comm_in' = s.comm_in
    /\ comm_out' = s.comm_out
    /\ routing_in' = s.routing_in
    /\ routing_out' = s.routing_out
    /\ closed' = s.closed
    /\ tun_in' = s.tun_in
    /\ device_out' = s.device_out
    /\ accepted' = s.accepted
    /\ handled' = s.handled
    /\ routed' = s.routed
    /\ routing_accepted' = s.routing_accepted
    /\ data_reads' = s.data_reads
    /\ session_ids' = s.session_ids
    /\ n_assigned' = s.n_assigned
    /\ granted' = s.granted

\* one iteration of the main loop (main.py line 73): Server.update, up to
\* its end or up to a recv(4) that does not return
Update ==
    /\ Running /\ blocked = None
    /\ \E s \in {update(s0) : s0 \in {State}} : ServerBecomes(s)
    /\ UNCHANGED <<routing_ident, routing_pending, n_msgs, n_frames>>
    /\ UNCHANGED <<reasm_vars, client_vars, pure_vars>>

\* the peer has written its identifier: recv(4) returns and the tick goes
\* on to its end
UpdateResume ==
    /\ Running /\ blocked # None
    /\ routing_ident[Get(blocked)] # <<>>
    /\ \E s \in {resume(s0) : s0 \in {State}} : ServerBecomes(s)
    /\ UNCHANGED <<routing_ident, routing_pending, n_msgs, n_frames>>
    /\ UNCHANGED <<reasm_vars, client_vars, pure_vars>>

(* ------------------------------ the peers ------------------------------ *)
\* Each socket is read at most once in a tick, so a write that arrives
\* during a tick is the same as one that arrives before it or after it:
\* the peers act between ticks.

\* what the peers have done so far
n_events ==
    Len(connected_clients) + Len(comm_backlog) + Len(routing_ident)
    + n_msgs + n_frames

\* the server is up and the peers may still act
PeersActive == Running /\ n_events < MaxEvents

\* a peer connects to the comm port
PeerConnectComm ==
    /\ PeersActive
    /\ \E c \in 1..MaxPeers :
          /\ c = Len(connected_clients) + Len(comm_backlog) + 1
          /\ comm_backlog' = Append(comm_backlog, c)
    /\ UNCHANGED <<server_vars, routing_backlog, routing_ident, comm_in,
                   comm_out, routing_in, routing_out, closed, tun_in,
                   device_out, log_vars, tick_vars, routing_pending>>
    /\ UNCHANGED <<reasm_vars, client_vars, pure_vars>>

\* what a peer may write as its identifier: four bytes, or a single byte
IdentWrites == {pack_I(ident) : ident \in 0..MaxPeers} \cup {<<0>>}

\* a peer connects to the routing port and writes ident_bytes
ConnectRouting(ident_bytes) ==
    \E r \in 1..MaxRoutingConns :
        /\ r = Len(routing_ident) + 1
        /\ routing_ident' = Append(routing_ident, ident_bytes)
        /\ routing_backlog' = Append(routing_backlog, r)

\* a peer connects to the routing port and writes an identifier, as
\* Client.__init__ does
PeerConnectRouting ==
    /\ PeersActive
    /\ \E ident \in 0..MaxPeers : ConnectRouting(pack_I(ident))
    /\ UNCHANGED <<server_vars, comm_backlog, comm_in, comm_out, routing_in,
                   routing_out, closed, tun_in, device_out, log_vars,
                   tick_vars, routing_pending>>
    /\ UNCHANGED <<reasm_vars, client_vars, pure_vars>>

\* a peer connects to the routing port and writes an identifier, a part
\* of one, or nothing yet
PeerConnectRoutingSlow ==
    /\ PeersActive
    /\ \E ident_bytes \in IdentWrites \cup {<<>>} : ConnectRouting(ident_bytes)
    /\ UNCHANGED <<server_vars, comm_backlog, comm_in, comm_out, routing_in,
                   routing_out, closed, tun_in, device_out, log_vars,
                   tick_vars, routing_pending>>
    /\ UNCHANGED <<reasm_vars, client_vars, pure_vars>>

\* a peer that connected without writing writes its identifier
PeerSendIdent ==
    /\ Running
    /\ \E r \in 1..Len(routing_ident), ident_bytes \in IdentWrites :
          /\ routing_ident[r] = <<>>
          /\ routing_ident' = [routing_ident EXCEPT ![r] = ident_bytes]
    /\ UNCHANGED <<server_vars, comm_backlog, routing_backlog, comm_in,
                   comm_out, routing_in, routing_out, closed, tun_in,
                   device_out, log_vars, tick_vars, routing_pending>>
    /\ UNCHANGED <<reasm_vars, client_vars, pure_vars>>

\* the payloads a requestIP message may carry
RequestPayloads ==
    <<Some([address |-> None])>>
    \o [a \in 1..NetworkSize |-> Some([address |-> Some(int2ip(a - 1))])]

\* a peer writes one requestIP message on its comm connection
PeerSendRequest ==
    /\ PeersActive /\ n_msgs < MaxMsgs
    /\ \E c \in 1..(Len(connected_clients) + Len(comm_backlog)),
          i \in 1..Len(RequestPayloads) :
          LET message == [action |-> "requestIP", token |-> n_msgs + 1,
                          payload |-> RequestPayloads[i]]
          IN  comm_in' = [comm_in EXCEPT ![c] = @ \o json_dumps(message) \o <<NL>>]
    /\ n_msgs' = n_msgs + 1
    /\ UNCHANGED <<server_vars, comm_backlog, routing_backlog, routing_ident,
                   comm_out, routing_in, routing_out, closed, tun_in,
                   device_out, accepted, handled, routed, session_ids,
                   n_assigned, granted, n_frames, tick_vars, routing_pending>>
    /\ UNCHANGED <<reasm_vars, client_vars, pure_vars>>

\* a peer writes a message the server has no handler for ("pong" is what
\* Client.action_ping sends)
PeerSendOther ==
    /\ PeersActive /\ n_msgs < MaxMsgs
    /\ \E c \in 1..(Len(connected_clients) + Len(comm_backlog)) :
          LET message == [action |-> "pong", token |-> n_msgs + 1]
          IN  comm_in' = [comm_in EXCEPT ![c] = @ \o json_dumps(message) \o <<NL>>]
    /\ n_msgs' = n_msgs + 1
    /\ UNCHANGED <<server_vars, comm_backlog, routing_backlog, routing_ident,
                   comm_out, routing_in, routing_out, closed, tun_in,
                   device_out, accepted, handled, routed, session_ids,
                   n_assigned, granted, n_frames, tick_vars, routing_pending>>
    /\ UNCHANGED <<reasm_vars, client_vars, pure_vars>>

\* how much of a frame reaches the server in one piece: one byte, the
\* header, the header and a part of the body, or all of it
FrameCuts == {1, HeaderSize, HeaderSize + 1, HeaderSize + 2}

\* the first k bytes of a frame with destination d reach the server on
\* routing connection r; the bytes behind the cut are still on their way
SendFrame(r, d, k) ==
    LET frame == Frame(int2ip(d), int2ip(d), n_frames + 1)
    IN  /\ r \notin closed
        /\ routing_pending[r] = <<>>
        /\ routing_in' = [routing_in EXCEPT ![r] = @ \o Slice(frame, 0, k)]
        /\ routing_pending' = [routing_pending EXCEPT ![r] =
               SubSeq(frame, k + 1, Len(frame))]

\* a peer writes one frame on a routing connection, as Client.handle_frame
\* does, and it arrives in one piece
PeerSendFrame ==
    /\ PeersActive /\ n_frames < MaxFrames
    /\ \E r \in 1..Len(routing_ident), d \in 0..(NetworkSize - 1) :
          SendFrame(r, d, HeaderSize + 2)
    /\ n_frames' = n_frames + 1
    /\ UNCHANGED <<server_vars, comm_backlog, routing_backlog, routing_ident,
                   comm_in, comm_out, routing_out, closed, tun_in, device_out,
                   accepted, handled, routed, session_ids, n_assigned, granted,
                   n_msgs, tick_vars>>
    /\ UNCHANGED <<reasm_vars, client_vars, pure_vars>>

\* a peer writes one frame on a routing connection and it arrives in
\* pieces
PeerSendFrameCut ==
    /\ PeersActive /\ n_frames < MaxFrames
    /\ \E r \in 1..Len(routing_ident), d \in 0..(NetworkSize - 1),
          k \in FrameCuts : SendFrame(r, d, k)
    /\ n_frames' = n_frames + 1
    /\ UNCHANGED <<server_vars, comm_backlog, routing_backlog, routing_ident,
                   comm_in, comm_out, routing_out, closed, tun_in, device_out,
                   accepted, handled, routed, session_ids, n_assigned, granted,
                   n_msgs, tick_vars>>
    /\ UNCHANGED <<reasm_vars, client_vars, pure_vars>>

\* the rest of a frame reaches the server
PeerSendRest ==
    /\ Running
    /\ \E r \in 1..Len(routing_ident) :
          /\ routing_pending[r] # <<>>
          /\ routing_in' = [routing_in EXCEPT ![r] = @ \o routing_pending[r]]
          /\ routing_pending' = [routing_pending EXCEPT ![r] = <<>>]
    /\ UNCHANGED <<server_vars, comm_backlog, routing_backlog, routing_ident,
                   comm_in, comm_out, routing_out, closed, tun_in, device_out,
                   log_vars, tick_vars>>
    /\ UNCHANGED <<reasm_vars, client_vars, pure_vars>>

\* the kernel hands a frame to the server's TUN device
TunFrame ==
    /\ PeersActive /\ n_frames < MaxFrames
    /\ \E d \in 0..(NetworkSize - 1) :
          tun_in' = Append(tun_in, Frame(server_address, int2ip(d), n_frames + 1))
    /\ n_frames' = n_frames + 1
    /\ UNCHANGED <<server_vars, comm_backlog, routing_backlog, routing_ident,
                   comm_in, comm_out, routing_in, routing_out, closed,
                   device_out, accepted, handled, routed, session_ids,
                   n_assigned, granted, n_msgs, tick_vars, routing_pending>>
    /\ UNCHANGED <<reasm_vars, client_vars, pure_vars>>

vars == <<server_vars, net_vars, log_vars, tick_vars, routing_pending,
          reasm_vars, client_vars, pure_vars>>

Next ==
    \/ Update
    \/ PeerConnectComm
    \/ PeerConnectRouting
    \/ PeerSendRequest
    \/ PeerSendOther
    \/ PeerSendFrame
    \/ TunFrame

\* the server, its sockets and its peers
Spec == Init /\ [][Next]_vars

(* ------------------- the routing port, byte by byte -------------------- *)
DataNext ==
    \/ Update
    \/ UpdateResume
    \/ PeerConnectComm
    \/ PeerConnectRoutingSlow
    \/ PeerSendIdent
    \/ PeerSendFrameCut
    \/ PeerSendRest
    \/ TunFrame

\* the server and peers whose routing-port writes arrive late or in pieces
SpecData == Init /\ [][DataNext]_vars

(* ------------------- control-channel reassembly alone ------------------ *)
\* the messages a stream is made of
StreamMessages ==
    <<[action |-> "requestIP", token |-> 1, payload |-> Some([address |-> None])],
      [action |-> "ping", payload |-> [value |-> 1]]>>

\* the streams of n messages, each message followed by a newline
RECURSIVE Streams(_)
Streams(n) ==
    IF n = 0 THEN {<<>>}
    ELSE {json_dumps(StreamMessages[i]) \o <<NL>> \o rest :
             i \in 1..Len(StreamMessages), rest \in Streams(n - 1)}

ReasmInit ==
    /\ ServerInit
    /\ ClientInit
    /\ CodecIdle
    /\ CfgIdle
    /\ TunIdle
    /\ \E n \in 1..MaxStreamMsgs : reasm_stream \in Streams(n)
    /\ reasm_rest = [side \in Sides |-> reasm_stream]
    /\ reasm_buffer = [side \in Sides |-> InitialBuffer(side)]
    /\ reasm_messages = [side \in Sides |-> <<>>]
    /\ reasm_raised = [side \in Sides |-> NoException]

\* what a read of the first k symbols of the rest does on one side
Read(side, k, step) ==
    /\ reasm_rest' = [reasm_rest EXCEPT
           ![side] = SubSeq(@, k + 1, Len(@))]
    /\ reasm_buffer' = [reasm_buffer EXCEPT ![side] = step.buffer]
    /\ reasm_messages' = [reasm_messages EXCEPT ![side] = @ \o step.messages]
    /\ reasm_raised' = [reasm_raised EXCEPT ![side] = step.raised]
    /\ UNCHANGED <<reasm_stream, server_vars, net_vars, log_vars, tick_vars,
                   routing_pending, client_vars, pure_vars>>

\* the server's recv returns the next k symbols of the stream
ServerRead ==
    /\ reasm_raised["server"] = NoException
    /\ \E k \in 1..Len(reasm_rest["server"]) :
          Read("server", k,
               ServerCommRecv(reasm_buffer["server"],
                              SubSeq(reasm_rest["server"], 1, k)))

\* the client's recv returns the next k symbols of the stream
ClientRead ==
    /\ reasm_raised["client"] = NoException
    /\ \E k \in 1..Len(reasm_rest["client"]) :
          Read("client", k,
               ClientCommRecv(reasm_buffer["client"],
                              SubSeq(reasm_rest["client"], 1, k)))

ReasmNext == ServerRead \/ ClientRead

SpecReasm == ReasmInit /\ [][ReasmNext]_vars

(* ------------------------------ the client ----------------------------- *)
\* the client's fields, what it sent and what it did, as one record
ClientState ==
    [client_id |-> c_client_id, token_callbacks |-> token_callbacks,
     address |-> c_address, device |-> c_device, comm_out |-> c_comm_out,
     raised |-> c_raised, invoked |-> c_invoked, registered |-> c_registered,
     answered |-> c_answered, handled |-> <<>>]

\* the variables of a client state cs become the next state
ClientBecomes(cs) ==
    /\ c_client_id' = cs.client_id
    /\ token_callbacks' = cs.token_callbacks
    /\ c_address' = cs.address
    /\ c_device' = cs.device
    /\ c_comm_out' = cs.comm_out
    /\ c_raised' = cs.raised
    /\ c_invoked' = cs.invoked
    /\ c_registered' = cs.registered
    /\ c_answered' = cs.answered
    /\ c_handled' = cs.handled

ClientUp == c_raised = NoException

Tokens == 1..NumTokens

\* the messages the other end of the comm socket may write
ServerMessages ==
    {[action |-> "setID", payload |-> [value |-> v]] : v \in {0, 258}}
    \cup {[action |-> "response", token |-> t, payload |-> p] :
              t \in Tokens,
              p \in {[success |-> TRUE, address |-> int2ip(2)],
                     [success |-> FALSE, reason |-> "No addresses left."]}}
    \cup {[action |-> "ping", payload |-> [value |-> 1]],
          [action |-> "status", payload |-> [value |-> 1]]}

\* the other end writes one message on the comm socket
ServerSend ==
    /\ ClientUp /\ n_server_msgs < MaxServerMsgs
    /\ c_comm_pending = <<>>
    /\ \E message \in ServerMessages :
          c_comm_in' = c_comm_in \o json_dumps(message) \o <<NL>>
    /\ n_server_msgs' = n_server_msgs + 1
    /\ UNCHANGED c_comm_pending
    /\ UNCHANGED <<c_pc, c_client_id, token_callbacks, comm_buffer,
                   waited_seconds, c_address, c_device, c_raised, c_comm_out,
                   c_routing_in, c_routing_pending, c_routing_out, c_tun_in,
                   c_device_out, c_handled, c_invoked, c_registered,
                   c_answered, n_client_frames>>
    /\ UNCHANGED <<server_vars, net_vars, log_vars, tick_vars, routing_pending,
                   reasm_vars, pure_vars>>

\* Client.receive(max_seconds=5, wait_period=1), one iteration of its loop
\* (lines 165-192) and, when the loop is left, lines 194-195 and the branch
\* of Client.__init__ taken on the result
ClientReceive ==
    /\ ClientUp /\ c_pc \in {"wait_id", "wait_address"}
    /\ \E pong_token \in Tokens :
       \E step \in {ClientCommRecv(comm_buffer, c_comm_in)} :
          /\ c_comm_in' = <<>>
          /\ UNCHANGED c_comm_pending
          /\ comm_buffer' = step.buffer
          /\ IF step.raised # NoException
             THEN /\ ClientBecomes([ClientState EXCEPT !.raised = step.raised])
                  /\ UNCHANGED <<c_pc, waited_seconds>>
             ELSE IF step.messages # <<>>
             \* break: the results are dispatched and receive returns True
             THEN \E cs \in {client_handle_messages(ClientState, step.messages,
                                                    pong_token)} :
                     /\ ClientBecomes(cs)
                     /\ c_pc' = IF cs.raised # NoException THEN c_pc
                                ELSE IF c_pc = "wait_id" THEN "connect_routing"
                                ELSE "running"
                     /\ UNCHANGED waited_seconds
             \* sleep; at max_seconds receive returns False, __init__ prints
             \* the failure and returns
             ELSE /\ ClientBecomes(ClientState)
                  /\ waited_seconds' = waited_seconds + WaitPeriod
                  /\ c_pc' = IF waited_seconds + WaitPeriod < MaxSeconds
                             THEN c_pc ELSE "running"
    /\ UNCHANGED <<c_routing_in, c_routing_pending, c_routing_out, c_tun_in,
                   c_device_out, n_server_msgs, n_client_frames>>
    /\ UNCHANGED <<server_vars, net_vars, log_vars, tick_vars, routing_pending,
                   reasm_vars, pure_vars>>

\* Client.__init__ lines 86-95: the routing connection, the identifier and
\* the requestIP call
ClientConnectRouting ==
    /\ ClientUp /\ c_pc = "connect_routing"
    /\ IF c_client_id = None
       \* no setID was among the messages: self.client_id is the None of
       \* the class, which struct.pack refuses
       THEN /\ ClientBecomes([ClientState EXCEPT
                                 !.raised = Raise("struct.error", 88)])
            /\ UNCHANGED <<c_pc, c_routing_out, waited_seconds>>
       ELSE \E token \in Tokens :
               /\ c_routing_out' = Append(c_routing_out, pack_I(Get(c_client_id)))
               /\ ClientBecomes(client_send(ClientState, "requestIP",
                                            Some([address |-> None]), token,
                                            Some("handle_ip_assignment")))
               /\ c_pc' = "wait_address"
               /\ waited_seconds' = 0
    /\ UNCHANGED <<comm_buffer, c_comm_in, c_comm_pending, c_routing_in,
                   c_routing_pending,
                   c_tun_in, c_device_out, n_server_msgs, n_client_frames>>
    /\ UNCHANGED <<server_vars, net_vars, log_vars, tick_vars, routing_pending,
                   reasm_vars, pure_vars>>

\* SSH.client_update: Client.update
ClientUpdate ==
    /\ ClientUp /\ c_pc = "running"
    /\ IF c_device = None
       \* line 198: self.device does not exist
       THEN /\ c_raised' = Raise("AttributeError", 198)
            /\ UNCHANGED <<c_tun_in, c_routing_out, c_routing_in, c_device_out>>
       ELSE \* device.update(): one frame from the TUN device goes through
            \* VPNAdapter.handle_frame to Client.handle_frame
            /\ IF c_tun_in # <<>>
               THEN /\ c_routing_out' = Append(c_routing_out, Head(c_tun_in))
                    /\ c_tun_in' = Tail(c_tun_in)
               ELSE UNCHANGED <<c_tun_in, c_routing_out>>
            \* lines 200-205: what recv(150) returns is written to the device
            /\ IF c_routing_in # <<>>
               THEN LET data == Slice(c_routing_in, 0, RecvSize)
                    IN  /\ c_device_out' = Append(c_device_out, data)
                        /\ c_routing_in' = SubSeq(c_routing_in, Len(data) + 1,
                                                  Len(c_routing_in))
               ELSE UNCHANGED <<c_routing_in, c_device_out>>
            /\ UNCHANGED c_raised
    /\ UNCHANGED <<c_pc, c_client_id, token_callbacks, comm_buffer,
                   waited_seconds, c_address, c_device, c_comm_in, c_comm_pending,
                   c_comm_out,
                   c_routing_pending, c_handled, c_invoked, c_registered,
                   c_answered, n_server_msgs, n_client_frames>>
    /\ UNCHANGED <<server_vars, net_vars, log_vars, tick_vars, routing_pending,
                   reasm_vars, pure_vars>>

\* the frames the server's end has written on the routing connection
ServerFrame(i) == Frame(server_address, Get(c_address), i)

\* the other end writes one frame on the routing connection, as
\* Server.route_frame does; the bytes behind the cut are still on their way
ServerSendFrame ==
    /\ ClientUp /\ c_address # None /\ n_client_frames < MaxClientFrames
    /\ c_routing_pending = <<>>
    /\ \E k \in FrameCuts :
          LET frame == ServerFrame(n_client_frames + 1)
          IN  /\ c_routing_in' = c_routing_in \o Slice(frame, 0, k)
              /\ c_routing_pending' = SubSeq(frame, k + 1, Len(frame))
    /\ n_client_frames' = n_client_frames + 1
    /\ UNCHANGED <<c_pc, c_client_id, token_callbacks, comm_buffer,
                   waited_seconds, c_address, c_device, c_raised, c_comm_in,
                   c_comm_pending, c_comm_out, c_routing_out, c_tun_in, c_device_out,
                   c_handled, c_invoked, c_registered, c_answered,
                   n_server_msgs>>
    /\ UNCHANGED <<server_vars, net_vars, log_vars, tick_vars, routing_pending,
                   reasm_vars, pure_vars>>

\* the rest of a frame reaches the client
ServerSendRest ==
    /\ ClientUp /\ c_routing_pending # <<>>
    /\ c_routing_in' = c_routing_in \o c_routing_pending
    /\ c_routing_pending' = <<>>
    /\ UNCHANGED <<c_pc, c_client_id, token_callbacks, comm_buffer,
                   waited_seconds, c_address, c_device, c_raised, c_comm_in,
                   c_comm_pending, c_comm_out, c_routing_out, c_tun_in, c_device_out,
                   c_handled, c_invoked, c_registered, c_answered,
                   n_server_msgs, n_client_frames>>
    /\ UNCHANGED <<server_vars, net_vars, log_vars, tick_vars, routing_pending,
                   reasm_vars, pure_vars>>

\* the kernel hands a frame to the client's TUN device
ClientTunFrame ==
    /\ ClientUp /\ c_device # None /\ n_client_frames < MaxClientFrames
    /\ \E d \in 0..(NetworkSize - 1) :
          c_tun_in' = Append(c_tun_in,
                             Frame(Get(c_device).address, int2ip(d), n_client_frames + 1))
    /\ n_client_frames' = n_client_frames + 1
    /\ UNCHANGED <<c_pc, c_client_id, token_callbacks, comm_buffer,
                   waited_seconds, c_address, c_device, c_raised, c_comm_in,
                   c_comm_pending, c_comm_out, c_routing_in, c_routing_pending, c_routing_out,
                   c_device_out, c_handled, c_invoked, c_registered,
                   c_answered, n_server_msgs>>
    /\ UNCHANGED <<server_vars, net_vars, log_vars, tick_vars, routing_pending,
                   reasm_vars, pure_vars>>

ClientNext ==
    \/ ServerSend
    \/ ClientReceive
    \/ ClientConnectRouting
    \/ ClientUpdate
    \/ ServerSendFrame
    \/ ServerSendRest
    \/ ClientTunFrame

\* the client, its sockets and the other end
SpecClient == Init /\ [][ClientNext]_vars

\* where the network may cut a message text: after its first symbol and
\* before its newline
CommCuts(text) == {1, Len(text) - 1}

\* the other end writes one message, and only its first part has arrived
ServerSendCut ==
    /\ ClientUp /\ n_server_msgs < MaxServerMsgs
    /\ c_comm_pending = <<>>
    /\ \E message \in ServerMessages :
          LET text == json_dumps(message) \o <<NL>>
          IN  \E k \in CommCuts(text) :
                 /\ c_comm_in' = c_comm_in \o SubSeq(text, 1, k)
                 /\ c_comm_pending' = SubSeq(text, k + 1, Len(text))
    /\ n_server_msgs' = n_server_msgs + 1
    /\ UNCHANGED <<c_pc, c_client_id, token_callbacks, comm_buffer,
                   waited_seconds, c_address, c_device, c_raised, c_comm_out,
                   c_routing_in, c_routing_pending, c_routing_out, c_tun_in,
                   c_device_out, c_handled, c_invoked, c_registered,
                   c_answered, n_client_frames>>
    /\ UNCHANGED <<server_vars, net_vars, log_vars, tick_vars, routing_pending,
                   reasm_vars, pure_vars>>

\* the rest of that message arrives
ServerSendTail ==
    /\ ClientUp /\ c_comm_pending # <<>>
    /\ c_comm_in' = c_comm_in \o c_comm_pending
    /\ c_comm_pending' = <<>>
    /\ UNCHANGED <<c_pc, c_client_id, token_callbacks, comm_buffer,
                   waited_seconds, c_address, c_device, c_raised, c_comm_out,
                   c_routing_in, c_routing_pending, c_routing_out, c_tun_in,
                   c_device_out, c_handled, c_invoked, c_registered,
                   c_answered, n_server_msgs, n_client_frames>>
    /\ UNCHANGED <<server_vars, net_vars, log_vars, tick_vars, routing_pending,
                   reasm_vars, pure_vars>>

\* Client.__init__ with a comm socket that delivers messages whole or in
\* two parts
WaitNext ==
    \/ ServerSend
    \/ ServerSendCut
    \/ ServerSendTail
    \/ ClientReceive
    \/ ClientConnectRouting

SpecWait == Init /\ [][WaitNext]_vars

\* Client.__init__ alone: the start-up up to the point where it returns
StartupNext ==
    \/ ServerSend
    \/ ClientReceive
    \/ ClientConnectRouting

SpecStartup == Init /\ [][StartupNext]_vars

\* the loop of Application.main calls Client.update without end, so a
\* tick that has something to do is taken; the other end and the kernel
\* are under no obligation
FairSpecClient == SpecClient /\ WF_vars(ClientUpdate)

(* ------------------------ the frame codec alone ------------------------ *)
\* addresses that differ in every byte position
CodecAddresses ==
    {int2ip(n) : n \in {1, 258, 65536 + 3, 167772160 + 4}}

\* frames of at least the header size, bodies of every length up to MaxBody
CodecFrames ==
    {Packet(source, destination, [i \in 1..n |-> i]) :
        source \in CodecAddresses, destination \in CodecAddresses,
        n \in 0..MaxBody}

\* the dicts a caller can pass: one key or both
CodecInformation ==
    [{"destination"} -> CodecAddresses] \cup [{"source"} -> CodecAddresses]
    \cup [{"source", "destination"} -> CodecAddresses]

CodecInit ==
    /\ ServerInit
    /\ ReasmIdle
    /\ ClientInit
    /\ CfgIdle
    /\ TunIdle
    /\ codec_frame \in CodecFrames
    /\ codec_information \in CodecInformation
    /\ codec_result = None

\* one call of set_frame_info
Rewrite ==
    /\ codec_result = None
    /\ codec_result' = Some(set_frame_info(codec_frame, codec_information))
    /\ UNCHANGED <<codec_frame, codec_information>>
    /\ UNCHANGED <<server_vars, net_vars, log_vars, tick_vars, routing_pending,
                   reasm_vars, client_vars, cfg_vars, tun_vars>>

CodecNext == Rewrite

SpecCodec == CodecInit /\ [][CodecNext]_vars

(* ------------------------ building the pool alone ---------------------- *)
RECURSIVE Pow2(_)
Pow2(k) == IF k = 0 THEN 1 ELSE 2 * Pow2(k - 1)

\* the CIDR ranges: a power of two of addresses, starting at a multiple
\* of it
Networks ==
    {network \in [base : 0..(AddressSpace - 1),
                  size : {Pow2(k) : k \in 0..MaxHostBits}] :
        /\ network.base % network.size = 0
        /\ network.base + network.size <= AddressSpace}

CfgInit ==
    /\ ServerInit
    /\ ReasmIdle
    /\ ClientInit
    /\ CodecIdle
    /\ TunIdle
    /\ cfg_network \in Networks
    /\ cfg_server \in Range(IpRangeOf(cfg_network))
    /\ cfg_pool = None

\* main.py lines 50-58 run
BuildAddresses ==
    /\ cfg_pool = None
    /\ cfg_pool' = Some(BuildPool(cfg_network, cfg_server))
    /\ UNCHANGED <<cfg_network, cfg_server>>
    /\ UNCHANGED <<server_vars, net_vars, log_vars, tick_vars, routing_pending,
                   reasm_vars, client_vars, codec_vars, tun_vars>>

CfgNext == BuildAddresses

SpecPool == CfgInit /\ [][CfgNext]_vars

(* ------------------------ the TUN device alone ------------------------- *)
\* the device's fields as one record
TunState ==
    [before_data |-> t_before_data, after_data |-> t_after_data,
     device_out |-> t_device_out, raised |-> t_raised]

TunBecomes(dev) ==
    /\ t_before_data' = dev.before_data
    /\ t_after_data' = dev.after_data
    /\ t_device_out' = dev.device_out
    /\ t_raised' = dev.raised

TunUp == t_raised = NoException

TunRest ==
    UNCHANGED <<server_vars, net_vars, log_vars, tick_vars, routing_pending,
                reasm_vars, client_vars, codec_vars, cfg_vars>>

\* header reads: the first n bytes of a header whose length field is L;
\* an IP packet has at least 20 bytes
TunHeaders ==
    {Slice(<<69, 0>> \o pack_H(L) \o Zeros(HeaderSize - 4), 0, n) :
        L \in {0, 20, HeaderSize - 1, HeaderSize, HeaderSize + 1,
                HeaderSize + MaxBody},
        n \in {HeaderSize - 4, HeaderSize}}

\* what a second read can draw from
TunBodies == {[i \in 1..n |-> i] : n \in 0..MaxBody}

\* the kernel makes the device readable
TunReadable ==
    /\ TunUp /\ t_pending = None /\ n_tun_ops < MaxTunOps
    /\ \E frame_header \in TunHeaders, available \in TunBodies :
          t_pending' = Some([frame_header |-> frame_header,
                             available |-> available])
    /\ n_tun_ops' = n_tun_ops + 1
    /\ UNCHANGED <<t_before_data, t_after_data, t_device_out, t_raised,
                   t_tick, t_queued, t_write>>
    /\ TunRest

\* TUNDevice.update
TunUpdate ==
    /\ TunUp
    /\ IF t_pending = None
       \* not readable: the loop of line 152 is not entered
       THEN /\ t_tick' = None
            /\ UNCHANGED <<t_before_data, t_after_data, t_device_out,
                           t_raised, t_pending>>
       ELSE \E done \in {TUNDevice_update(TunState,
                                           Get(t_pending).frame_header,
                                           Get(t_pending).available)} :
               /\ TunBecomes(done.dev)
               /\ t_tick' = Some(done.tick)
               /\ t_pending' = None
    /\ UNCHANGED <<t_queued, t_write, n_tun_ops>>
    /\ TunRest

\* the data a caller queues and writes
TunData == {<<1>>, <<2, 2>>}

\* TUNDevice.write_data_callback(data, before)
TunWriteDataCallback ==
    /\ TunUp /\ n_tun_ops < MaxTunOps
    /\ \E data \in TunData, before \in BOOLEAN :
          /\ TunBecomes(write_data_callback(TunState, data, before))
          /\ t_queued' = IF before
                         THEN [t_queued EXCEPT !.before = @ \o data]
                         ELSE [t_queued EXCEPT !.after = @ \o data]
    /\ n_tun_ops' = n_tun_ops + 1
    /\ UNCHANGED <<t_pending, t_tick, t_write>>
    /\ TunRest

RECURSIVE Flatten(_)
Flatten(writes) ==
    IF writes = <<>> THEN <<>> ELSE Head(writes) \o Flatten(Tail(writes))

\* TUNDevice.write_data(data), the primary write
TunWriteData ==
    /\ TunUp /\ n_tun_ops < MaxTunOps
    /\ \E data \in TunData :
       \E dev \in {write_data(TunState, data)} :
          /\ TunBecomes(dev)
          /\ t_write' = Some([data |-> data, queued |-> t_queued,
                              written |-> Flatten(SubSeq(dev.device_out,
                                              Len(t_device_out) + 1,
                                              Len(dev.device_out))),
                              before_data |-> dev.before_data,
                              after_data |-> dev.after_data])
    /\ t_queued' = [before |-> <<>>, after |-> <<>>]
    /\ n_tun_ops' = n_tun_ops + 1
    /\ UNCHANGED <<t_pending, t_tick>>
    /\ TunRest

TunNext ==
    \/ TunReadable
    \/ TunUpdate
    \/ TunWriteDataCallback
    \/ TunWriteData

SpecTun == Init /\ [][TunNext]_vars

(* ======================= properties of the server ====================== *)
\* the dict a text sent on a comm socket carries
Sent(text) == Get(json_loads(SubSeq(text, 1, Len(text) - 1)))

IsRequest(e) == e.message["action"] = "requestIP"
IsAutoRequest(e) ==
    /\ IsRequest(e)
    /\ \/ "payload" \notin DOMAIN e.message
       \/ e.message["payload"] = None
       \/ "address" \notin DOMAIN Get(e.message["payload"])
       \/ Get(e.message["payload"])["address"] = None
IsExplicitRequest(e) == IsRequest(e) /\ ~IsAutoRequest(e)
RequestedAddress(e) == Get(Get(e.message["payload"])["address"])
Unchanged(e) == e.after = e.before
Failure(e, reason) ==
    /\ e.raised = NoException
    /\ e.sent # None
    /\ Sent(Get(e.sent))["action"] = "response"
    /\ Sent(Get(e.sent))["payload"] = [success |-> FALSE, reason |-> reason]
Success(e, address) ==
    /\ e.raised = NoException
    /\ e.sent # None
    /\ Sent(Get(e.sent))["action"] = "response"
    /\ Sent(Get(e.sent))["payload"] = [success |-> TRUE, address |-> address]

\* C1: every address of the initial pool is in exactly one of the pool and
\* the routing table's keys, and the server's own address is always a key
\* of the routing table and never in the pool.
C1_PoolAndTablePartition ==
    /\ \A a \in Range(available_addresses) :
          (a \in Range(addresses)) # (a \in DOMAIN routing_socket_mapping)
    /\ server_address \in DOMAIN routing_socket_mapping
    /\ server_address \notin Range(addresses)

\* C2: a frame routed to an address that a success response gave to a
\* session whose routing handshake is complete is sent unmodified on that
\* session's routing socket, and on nothing else.
C2_GrantedAddressRoutedToSession ==
    \A i \in 1..Len(routed) :
        \A o \in routed[i].owners :
            o.socket # None =>
                /\ routed[i].target = "remote"
                /\ routed[i].socket = o.socket
                /\ \E k \in 1..Len(routing_out[Get(o.socket)]) :
                      routing_out[Get(o.socket)][k] = routed[i].frame
                /\ \A k \in 1..Len(device_out) : device_out[k] # routed[i].frame

\* C4: a requestIP naming an address that is in the pool and is no key of
\* the routing table is answered with success and that address, takes the
\* address out of the pool and binds it to the requesting session, and
\* the server goes on.
C4_ExplicitRequestSucceeds ==
    \A i \in 1..Len(handled) :
        LET e == handled[i]
        IN  (/\ IsExplicitRequest(e)
             /\ RequestedAddress(e) \in Range(e.before.addresses)
             /\ RequestedAddress(e) \notin DOMAIN e.before.routing_socket_mapping)
            => /\ Success(e, RequestedAddress(e))
               /\ RequestedAddress(e) \notin Range(e.after.addresses)
               /\ RequestedAddress(e) \in DOMAIN e.after.routing_socket_mapping
               /\ e.after.routing_socket_mapping[RequestedAddress(e)]
                      = connected_clients[e.client_id + 1].routing.socket
               /\ Running

C5_WitnessEmptyPool ==
    /\ Running
    /\ \E i \in 1..Len(handled) :
          /\ IsAutoRequest(handled[i])
          /\ Failure(handled[i], "No addresses left.")

\* C6 as stated: the k-th successful automatic assignment returns the k-th
\* entry of the initial pool, and the first session is told id 0.
C6_AutoAssignsFirstEntry ==
    /\ session_ids # <<>> => session_ids[1] = 0
    /\ \A i \in 1..Len(handled) :
          LET e == handled[i]
          IN  (IsAutoRequest(e) /\ e.before.addresses # <<>>)
              => Success(e, available_addresses[e.n_assigned + 1])

\* C6 as amended: the k-th successful automatic assignment returns the
\* k-th entry from the end of the initial pool (the last entry first), and
\* the first session is told id 0.
C6_AutoAssignsLastEntry ==
    /\ session_ids # <<>> => session_ids[1] = 0
    /\ \A i \in 1..Len(handled) :
          LET e == handled[i]
          IN  (IsAutoRequest(e) /\ e.before.addresses # <<>>)
              => /\ e.n_assigned < Len(available_addresses)
                 /\ Success(e, available_addresses[
                        Len(available_addresses) - e.n_assigned])

\* C6, reached: the second automatic assignment has been answered
C6_Witness ==
    \E i \in 1..Len(handled) :
        /\ IsAutoRequest(handled[i])
        /\ handled[i].n_assigned = 1
        /\ handled[i].sent # None
        /\ Sent(Get(handled[i].sent))["payload"].success

\* C7: a message whose action the server has no handler for is ignored:
\* nothing is raised, nothing is sent, pool and routing table stay as they
\* are and the server goes on.
C7_UnknownActionIgnored ==
    \A i \in 1..Len(handled) :
        LET e == handled[i]
        IN  (e.message["action"] \notin action_mapping \cup {"response"})
            => /\ e.raised = NoException
               /\ e.sent = None
               /\ Unchanged(e)
               /\ Running

\* the tokens of the requests of session client_id dispatched in the tick
RECURSIVE RequestTokens(_, _)
RequestTokens(log, client_id) ==
    IF log = <<>> THEN <<>>
    ELSE (IF /\ Head(log).client_id = client_id
             /\ Head(log).message["action"] \in action_mapping
             /\ "token" \in DOMAIN Head(log).message
          THEN <<Head(log).message["token"]>> ELSE <<>>)
         \o RequestTokens(Tail(log), client_id)

\* the tokens of the responses among the texts sent on a comm socket
RECURSIVE ResponseTokens(_)
ResponseTokens(texts) ==
    IF texts = <<>> THEN <<>>
    ELSE (IF /\ Sent(Head(texts))["action"] = "response"
             /\ "token" \in DOMAIN Sent(Head(texts))
          THEN <<Sent(Head(texts))["token"]>> ELSE <<>>)
         \o ResponseTokens(Tail(texts))

\* C9: the responses sent on a session's comm socket carry the tokens of
\* the requests received on that session, one response per request and in
\* the order of the requests.
C9_OneResponsePerRequest ==
    \A n \in 1..Len(connected_clients) :
        ResponseTokens(comm_out[Get(connected_clients[n].comm.socket)])
            = RequestTokens(handled, n - 1)

\* C10: the n-th accepted comm connection becomes session n, registered
\* without a routing socket, and is sent setID with value n; the ids sent
\* so far are the indices of the session table.
C10_SessionIdsAreIndices ==
    /\ session_ids = [n \in 1..Len(connected_clients) |-> n - 1]
    /\ accepted # None =>
          LET a == Get(accepted)
          IN  /\ a.next_id = Len(connected_clients) - 1
              /\ a.next_id = a.connection - 1
              /\ a.socket_data.routing.socket = None
              /\ connected_clients[a.next_id + 1].comm.socket = Some(a.connection)
              /\ comm_out[a.connection] # <<>>
              /\ Sent(comm_out[a.connection][1]) = SetIDMessage(a.next_id)

\* C10, reached: a second connection has just been accepted
C10_Witness ==
    /\ accepted # None
    /\ Len(connected_clients) = 2
    /\ Sent(comm_out[2][1])["payload"].value = 1

(* ==================== properties of the reassembly ===================== *)
\* the messages a side dispatches when the whole stream arrives in one read
WholeRead(side) ==
    IF side = "server"
    THEN ServerCommRecv(InitialBuffer(side), reasm_stream).messages
    ELSE ClientCommRecv(InitialBuffer(side), reasm_stream).messages

\* C3: however the stream is cut into reads, no read raises, and once the
\* whole stream has been read the messages handed to dispatch are those of
\* reading it in one piece, in the same order.
C3_ReassemblyIgnoresChunking ==
    \A side \in Sides :
        /\ reasm_raised[side] = NoException
        /\ reasm_rest[side] = <<>> => reasm_messages[side] = WholeRead(side)
(* ======================= properties of the client ====================== *)
IsResponse(e) == e.message["action"] = "response"

\* C8: a token is in the outstanding-calls table exactly from the send that
\* stored its continuation until a response carrying it is dispatched; the
\* dispatch calls the continuation once with the payload and removes the
\* entry, so no continuation is called twice; a response whose token is not
\* in the table calls nothing and leaves the table as it is.
C8_TokenTableMatchesOutstandingCalls ==
    /\ DOMAIN token_callbacks = c_registered \ c_answered
    /\ \A i, j \in 1..Len(c_invoked) :
           c_invoked[i].token = c_invoked[j].token => i = j
    /\ \A i \in 1..Len(c_handled) :
           LET e == c_handled[i]
               token == e.message["token"]
           IN  IsResponse(e) =>
                   IF token \in DOMAIN e.before.token_callbacks
                   THEN /\ e.after.invoked =
                               Append(e.before.invoked,
                                      [token |-> token,
                                       payload |-> e.message["payload"]])
                        /\ token \notin DOMAIN e.after.token_callbacks
                   ELSE /\ e.after.invoked = e.before.invoked
                        /\ e.after.token_callbacks = e.before.token_callbacks

(* ================== properties of the routing port ===================== *)
\* what the routing accept of the tick did is what the identifier calls for
RoutingAcceptedAsCalledFor ==
    routing_accepted # None =>
        LET e == Get(routing_accepted)
            n == e.client_id
            unbound_session ==
                /\ n >= 0 /\ n < Len(e.before)
                /\ e.before[n + 1].routing.socket = None
        IN  /\ e.bound = unbound_session
            /\ IF unbound_session
               THEN /\ connected_clients =
                           [e.before EXCEPT ![n + 1].routing.socket =
                                                Some(e.connection)]
                    /\ e.connection \notin closed
               ELSE /\ connected_clients = e.before
                    /\ e.connection \in closed

\* a bound routing socket stays what it is
RoutingBindingKept ==
    \A n \in 1..Len(connected_clients) :
        connected_clients[n].routing.socket # None
        => connected_clients'[n].routing.socket
               = connected_clients[n].routing.socket

\* C11: a routing connection that presents identifier n becomes session
\* n's routing socket exactly when n is an existing session without a
\* routing socket; otherwise it is closed and the sessions stay as they
\* are; a session's routing socket, once bound, is never replaced.
C11_RoutingBindsOnlyUnboundSession ==
    [](RoutingAcceptedAsCalledFor) /\ [][RoutingBindingKept]_vars

\* C11, reached: one connection was refused, and the tick has bound another
C11_Witness ==
    /\ routing_accepted # None
    /\ Get(routing_accepted).bound
    /\ closed # {}

C13_RewriteRoundTrip ==
    codec_result # None =>
        LET original == get_frame_info(codec_frame)
            rewritten == get_frame_info(Get(codec_result))
        IN  /\ DOMAIN codec_information = {"destination"}
               => /\ rewritten.destination = codec_information["destination"]
                  /\ rewritten.source = original.source
                  /\ rewritten.length = original.length
                  /\ Len(Get(codec_result)) = Len(codec_frame)
            /\ DOMAIN codec_information = {"source"}
               => rewritten.destination = original.destination

(* ================== properties of the address pool ===================== *)
\* the pool main built has no entry twice and is the whole range without
\* its last address and without the server's
PoolIsRangeWithoutBroadcastAndServer ==
    LET built == Get(cfg_pool)
        hosts == Range(IpRangeOf(cfg_network))
        broadcast == int2ip(cfg_network.base + cfg_network.size - 1)
    IN  /\ ~built.returned
        /\ Range(built.available_addresses) = hosts \ {broadcast, cfg_server}
        /\ Len(built.available_addresses) = cfg_network.size - 2
        /\ Cardinality(Range(built.available_addresses))
               = Len(built.available_addresses)

C15_TickNeverWaitsOnPeer == blocked = None

(* ================== properties of the client start-up ================== *)
\* C16: the client's update loop is entered, and its per-tick update
\* run, only after a setID was received and a virtual interface was
\* constructed from a successful address response; after a timed-out wait
\* for either, the update loop is never entered.
C16_ActiveOnlyWithIdAndDevice ==
    c_pc = "running" => (c_client_id # None /\ c_device # None)


(* ================= properties of the client's data path ================ *)
\* C17: every write the running client makes to its virtual interface
\* from routing-socket data is exactly one complete frame, as long as its
\* own header says, and the writes are the frames the server sent, in
\* order, however the stream was cut into reads.
C17_ClientWritesWholeFrames ==
    \A i \in 1..Len(c_device_out) :
        /\ Len(c_device_out[i]) >= HeaderSize
        /\ Len(c_device_out[i]) = get_frame_info(c_device_out[i]).length
        /\ c_device_out[i] = ServerFrame(i)


(* =============== properties of the client's control path =============== *)
\* the client runs its update loop with an interface
Active == ClientUp /\ c_pc = "running" /\ c_device # None

\* a ping is among the complete messages waiting on the comm socket
PingWaiting ==
    \E i \in 1..(Len(Split(c_comm_in)) - 1) :
        LET loaded == json_loads(Split(c_comm_in)[i])
        IN  loaded # None /\ Get(loaded)["action"] = "ping"

PongSent ==
    \E i \in 1..Len(c_comm_out) : c_comm_out[i]["action"] = "pong"

\* C18: while the client is active, a complete control message that has
\* arrived on its comm socket is eventually read and dispatched by a later
\* tick; a ping that waits there is eventually answered with a pong.
C18_ActiveClientDispatches ==
    /\ (Active /\ c_comm_in # <<>>) ~> (c_comm_in = <<>>)
    /\ (Active /\ PingWaiting) ~> PongSent


(* ================ properties of the server's data channel ============== *)
\* C19: once the server has read the fixed-size header of a frame from a
\* routing socket, header and the bytes the next read obtained are routed
\* as one unit, also when that read yields fewer bytes than the header
\* announces or none at all; the routing socket stays bound and open.
C19_HeaderReadIsAlwaysRouted ==
    \A i \in 1..Len(data_reads) :
        LET e == data_reads[i]
        IN  Len(e.header_data) = HeaderSize
            => /\ e.outcome = "routed"
               /\ \E j \in 1..Len(routed) :
                      routed[j].frame = e.header_data \o e.frame_data
               /\ connected_clients[e.client_id + 1].routing.socket
                      = Some(e.socket)
               /\ e.socket \notin closed


(* ================= properties of the routing handshake ================= *)
RECURSIVE Pow256(_)
Pow256(k) == IF k = 0 THEN 1 ELSE 256 * Pow256(k - 1)

\* the four bytes of n, least significant first and most significant first
LittleEndian(n) == [i \in 1..4 |-> (n \div Pow256(i - 1)) % 256]
BigEndian(n) == [i \in 1..4 |-> (n \div Pow256(4 - i)) % 256]

\* the step of the client that opens the routing connection and writes
\* the handshake prefix
Handshake == c_pc = "connect_routing" /\ c_pc' = "wait_address"

\* the server decodes the client's session id from what was written
ServerDecodesId == unpack_I(c_routing_out'[1]) = Get(c_client_id)

FailureResponse(e) ==
    /\ e.message["action"] = "response"
    /\ e.message["token"] \in DOMAIN e.before.token_callbacks
    /\ ~e.message["payload"]["success"]

\* C21: when the response to requestIP carries a failure payload, the
\* client raises no exception, constructs no interface, records no
\* address and does not enter its update loop.
C21_FailurePayloadRaisesNothing ==
    \A i \in 1..Len(c_handled) :
        FailureResponse(c_handled[i])
        => /\ c_handled[i].after.raised = NoException
           /\ c_handled[i].after.device = c_handled[i].before.device
           /\ c_handled[i].after.address = c_handled[i].before.address
           /\ c_handled[i].before.device = None => c_pc # "running"


(* ==================== properties of the TUN device ===================== *)
\* the header read is a whole header whose length field L lies between
\* the header size and MaxFrameLength, and the second read obtained
\* exactly L minus the header size bytes
ValidFrameRead(tick) ==
    /\ Len(tick.frame_header) = HeaderSize
    /\ get_frame_info(tick.frame_header).length >= HeaderSize
    /\ get_frame_info(tick.frame_header).length <= MaxFrameLength
    /\ Len(tick.frame_data)
           = get_frame_info(tick.frame_header).length - HeaderSize

\* C22: in a tick of the virtual interface the frame handler is invoked
\* only with a frame whose length field L satisfies 24 <= L <= 65536 and
\* whose byte length is L; for every other header read the frame is
\* discarded: the handler is not invoked (so nothing is written to the
\* device) and the tick returns without raising.
C22_InvalidFrameIsDiscarded ==
    t_tick # None =>
        IF ValidFrameRead(Get(t_tick))
        THEN Get(t_tick).invoked
                 = <<Get(t_tick).frame_header \o Get(t_tick).frame_data>>
        ELSE /\ Get(t_tick).invoked = <<>>
             /\ Get(t_tick).raised = NoException

\* C23: data queued with before=True is on the device immediately before
\* the data of the next primary write, data queued with before=False
\* immediately after it, and both queues are empty after that write.
C23_QueuedDataFlushedAroundWrite ==
    t_write # None =>
        /\ Get(t_write).written
               = Get(t_write).queued.before \o Get(t_write).data
                     \o Get(t_write).queued.after
        /\ Get(t_write).before_data = <<>>
        /\ Get(t_write).after_data = <<>>


(* ================ properties of the client's bounded wait ============== *)
\* a step in which a call of Client.receive returns to Client.__init__
ReceiveReturns == c_pc \in {"wait_id", "wait_address"} /\ c_pc' # c_pc

\* it returns True: the loop was left by the break of line 186
ReturnsTrue == ReceiveReturns /\ waited_seconds' = waited_seconds

\* it returns False: the loop was left at the ceiling
ReturnsFalse == ReceiveReturns /\ waited_seconds' # waited_seconds

\* an exception left the reading loop of Client.receive (lines 165-192)
ReceiveRaised == c_raised.line \in {173, 178, 185}

\* True exactly when complete messages were received and dispatched
ReceiveAsPromised ==
    /\ ReturnsTrue => c_handled' # <<>>
    /\ ReturnsFalse => (c_handled' = <<>> /\ waited_seconds' = MaxSeconds)
    /\ (/\ c_pc \in {"wait_id", "wait_address"}
        /\ c_handled' # <<>>
        /\ c_raised' = NoException) => ReturnsTrue

\* C24: Client.receive with max_seconds=5 and wait_period=1 makes at most
\* 5 poll-and-sleep iterations for every behaviour of the comm socket (no
\* data, data without a delimiter, complete messages) and then returns:
\* True exactly when at least one complete message was received and
\* dispatched, False otherwise.
C24_ReceiveReturnsWithinCeiling ==
    /\ [](~ReceiveRaised /\ waited_seconds <= MaxSeconds)
    /\ [][ReceiveAsPromised]_vars


(* ============== properties of truncated routing input ================== *)
\* C25: when the read of the 4-byte identifier or of the fixed-size frame
\* header on a routing connection returns fewer bytes than asked for, the
\* data is skipped and the tick ends without an uncaught error: no
\* exception leaves the decoding of the identifier (line 194) or of the
\* header (line 222), and no short header read is recorded as raised.
C25_TruncatedRoutingInputSkipped ==
    /\ uncaught.line \notin {194, 222}
    /\ \A i \in 1..Len(data_reads) :
           Len(data_reads[i].header_data) < HeaderSize
           => data_reads[i].outcome # "raised"


(* ================= properties of address ownership ===================== *)
\* the sessions a success response has given an address to
Owners == {granted[a] : a \in DOMAIN granted}

\* C26: a session owns at most one virtual address: whatever requestIP
\* messages a session has sent, no two addresses were given to the same
\* session, and no more addresses have left the pool than there are
\* sessions that own one.
C26_SessionOwnsAtMostOneAddress ==
    /\ \A a, b \in DOMAIN granted : granted[a] = granted[b] => a = b
    /\ n_assigned <= Cardinality(Owners)

====
